---- MODULE Spec2Model ----
(***************************************************************************)
(* Model of the quantum-ledger node: the UTXO ledger (ledger.py), its two  *)
(* stores (db_manager.py), the transaction model (transaction.py), the     *)
(* wallet's transaction builder (wallet_manager.py), the HTTP handlers     *)
(* that call the ledger from concurrent threads (app.py) and the gossip    *)
(* thread's chain reconciliation (network.py).                             *)
(*                                                                         *)
(* Amounts are floats in the source; here they are integers counting       *)
(* tenths (0.1 == 1).  A SHA3-512 digest is modelled by the value that was *)
(* hashed (so distinct inputs give distinct digests) and the number of its *)
(* leading '0' characters by a fixed mixing function of the numeric header *)
(* fields.                                                                 *)
(***************************************************************************)
EXTENDS Integers, Sequences, FiniteSets, TLC

\* ------------------------------------------------------------------ bounds
MaxChain == 3
MaxClock == 4
MaxPool == 2
MaxProof == 2
MaxRetargetLen == 11
MaxDifficulty == 3
MaxOutputs == 4

\* ------------------------------------------------------- config.py values
INITIAL_DIFFICULTY == 4
MINER_REWARD == 100
BLOCK_TIME_TARGET == 10
DIFFICULTY_ADJUSTMENT_INTERVAL == 5
TRANSACTION_VERSION == 1
GENESIS_FACTOR == 1000
SIG_LEN == 6758
COINBASE_LEN == 8

Threads == {"t1", "t2"}
Gossip == "g"

\* keys held by the wallet store: alias -> (public key, private key)
MinerPub == "M"
Wallets == [M |-> "m", A |-> "a"]
Addresses == {"M", "A"}
PeerAddress == "P"

\* ------------------------------------------------------------- primitives
\* "0" * 128
ZeroHash == [h |-> "0"]
\* a missing or falsy optional value ('txid' of a transaction dict,
\* 'merkle_root' of a block dict)
Absent == [h |-> "none"]
\* Python None for a signature, and the literal tag "COINBASE"
NoneSig == [n |-> 0 - 1, k |-> "None", d |-> ZeroHash]
CoinbaseSig == [n |-> COINBASE_LEN, k |-> "COINBASE", d |-> ZeroHash]

\* hash_data: the digest stands for the canonical serialisation it was
\* computed from
hash_data(kind, data) == [h |-> kind, of |-> data]

\* PQCAlgorithm.sign: sha3(private_key[:100] + data_hash) cut to the
\* signature length
pqc_sign(private_key, data_hash) == [n |-> SIG_LEN, k |-> private_key, d |-> data_hash]

\* PQCAlgorithm.verify: only the length of the signature is compared
pqc_verify(public_key, data_hash, signature) == signature.n = SIG_LEN

RECURSIVE SumSeq(_)
SumSeq(s) == IF s = <<>> THEN 0 ELSE Head(s) + SumSeq(Tail(s))

\* list.remove(x): drops the first element equal to x
RECURSIVE RemoveFirst(_, _)
RemoveFirst(s, x) ==
    IF s = <<>> THEN <<>>
    ELSE IF Head(s) = x THEN Tail(s) ELSE <<Head(s)>> \o RemoveFirst(Tail(s), x)

\* ------------------------------------------------------------ transaction
TxInput(txid, output_index, signature, pub_key) ==
    [txid |-> txid, output_index |-> output_index, signature |-> signature, pub_key |-> pub_key]

TxOutput(amount, address) == [amount |-> amount, address |-> address]

NullSignature(inp) == [inp EXCEPT !.signature = NoneSig]

NullSignatures(inputs) == [i \in 1..Len(inputs) |-> NullSignature(inputs[i])]

\* Transaction.to_dict: the dict carries no 'txid' key
to_dict(tx, include_signature) ==
    [inputs |-> IF include_signature THEN tx.inputs ELSE NullSignatures(tx.inputs),
     outputs |-> tx.outputs,
     timestamp |-> tx.timestamp,
     version |-> tx.version,
     txid |-> Absent]

\* Transaction._calculate_txid: hash of to_dict(include_signature=False)
calculate_txid(tx) ==
    hash_data("tx", <<NullSignatures(tx.inputs), tx.outputs, tx.timestamp, tx.version>>)

\* Transaction.__init__: the txid is computed once, from the fields as they
\* are at construction
Transaction(inputs, outputs, version, timestamp) ==
    LET t == [inputs |-> inputs, outputs |-> outputs, version |-> version,
              timestamp |-> timestamp, txid |-> Absent]
    IN [t EXCEPT !.txid = calculate_txid(t)]

\* Transaction.from_dict: data.get('txid') or the recomputed hash
from_dict(data, now) ==
    LET t == Transaction(data.inputs, data.outputs, data.version,
                         IF data.timestamp # 0 THEN data.timestamp ELSE now)
    IN IF data.txid # Absent THEN [t EXCEPT !.txid = data.txid] ELSE t

\* Transaction.sign_input over every input (WalletManager.create_transaction)
SignAll(tx, private_key) ==
    [tx EXCEPT !.inputs = [i \in 1..Len(tx.inputs) |->
        [tx.inputs[i] EXCEPT !.signature = pqc_sign(private_key, tx.txid)]]]

\* QuantumLedger._create_coinbase_tx: signature and pub_key are assigned
\* after the transaction (and its txid) has been built
create_coinbase_tx(recipient, amount, now) ==
    LET cb == Transaction(<<TxInput(ZeroHash, 0 - 1, NoneSig, "None")>>,
                          <<TxOutput(amount, recipient)>>, TRANSACTION_VERSION, now)
    IN [cb EXCEPT !.inputs = <<[cb.inputs[1] EXCEPT !.signature = CoinbaseSig, !.pub_key = "ZERO"]>>]

\* ------------------------------------------------------------- UTXO store
\* a row of table utxos; spent == <<>> when spent_txid IS NULL
UTXO(txid, output_index, address, amount) ==
    [txid |-> txid, output_index |-> output_index, address |-> address,
     amount |-> amount, spent |-> <<>>]

is_spent(u) == u.spent # <<>>

HasKey(store, txid, output_index) ==
    \E u \in store : u.txid = txid /\ u.output_index = output_index

\* UTXODBManager.get_utxo_by_id (only called where HasKey holds)
get_utxo_by_id(store, txid, output_index) ==
    CHOOSE u \in store : u.txid = txid /\ u.output_index = output_index

\* UTXODBManager.get_unspent_outputs
get_unspent_outputs(store, address) ==
    {u \in store : ~is_spent(u) /\ u.address = address}

\* UTXODBManager.add_utxos: INSERT OR IGNORE, one row after the other
RECURSIVE add_utxos(_, _)
add_utxos(store, utxos_list) ==
    IF utxos_list = <<>> THEN store
    ELSE LET u == Head(utxos_list)
             s == IF HasKey(store, u.txid, u.output_index) THEN store
                  ELSE store \cup {UTXO(u.txid, u.output_index, u.address, u.amount)}
         IN add_utxos(s, Tail(utxos_list))

\* rowcount > 0 of an UPDATE without `AND spent_txid IS NULL`
MarkSpentOkAny(store, input_txid, input_index) == HasKey(store, input_txid, input_index)

\* UTXODBManager.mark_spent: the conditional UPDATE; rowcount > 0
mark_spent_ok(store, input_txid, input_index) ==
    \E u \in store : u.txid = input_txid /\ u.output_index = input_index /\ ~is_spent(u)

\* mark_spent that changes no row
MarkSpentNothing(store, input_txid, input_index, spent_txid, spent_index) == store

mark_spent(store, input_txid, input_index, spent_txid, spent_index) ==
    {IF u.txid = input_txid /\ u.output_index = input_index /\ ~is_spent(u)
        THEN [u EXCEPT !.spent = <<spent_txid, spent_index>>] ELSE u : u \in store}

\* ----------------------------------------------------------------- blocks
\* calculate_merkle_root
RECURSIVE MerkleLevel(_)
MerkleLevel(hashes) ==
    IF Len(hashes) <= 1 THEN hashes
    ELSE LET padded == IF Len(hashes) % 2 # 0 THEN Append(hashes, hashes[Len(hashes)]) ELSE hashes
             level == [i \in 1..(Len(padded) \div 2) |->
                          hash_data("mrk", <<padded[2 * i - 1], padded[2 * i]>>)]
         IN MerkleLevel(level)

calculate_merkle_root(transactions) ==
    IF transactions = <<>> THEN ZeroHash
    ELSE MerkleLevel([i \in 1..Len(transactions) |-> transactions[i].txid])[1]

\* Block.calculate_hash: hash of the five header fields
calculate_hash(index, timestamp, previous_hash, merkle_root, proof) ==
    hash_data("blk", <<index, timestamp, previous_hash, merkle_root, proof>>)

\* Block.__init__ with current_hash=None
Block(index, transactions, previous_hash, proof, timestamp, merkle_root) ==
    LET mr == IF merkle_root # Absent THEN merkle_root ELSE calculate_merkle_root(transactions)
    IN [index |-> index, timestamp |-> timestamp, transactions |-> transactions,
        previous_hash |-> previous_hash, proof |-> proof, merkle_root |-> mr,
        hash |-> calculate_hash(index, timestamp, previous_hash, mr, proof)]

\* number of leading '0' characters of a block's hexdigest
ZerosTable == <<4, 0, 1>>
LeadingZeros(hash) ==
    IF hash = ZeroHash THEN 128
    ELSE IF hash.h # "blk" THEN 0
    ELSE ZerosTable[((hash.of[1] + hash.of[2] + hash.of[5]) % 3) + 1]

\* number of leading '0' characters of sha3(f"{header}{proof}")
PowTable == <<0, 4, 0>>
GuessZeros(header_index, proof) == PowTable[((header_index + proof) % 3) + 1]

\* QuantumLedger.proof_of_work: the first proof, counting from 0, whose
\* guess hash starts with `difficulty` zeros
RECURSIVE proof_of_work(_, _, _)
proof_of_work(header_index, difficulty, proof) ==
    IF GuessZeros(header_index, proof) >= difficulty THEN proof
    ELSE proof_of_work(header_index, difficulty, proof + 1)

\* Transaction.is_valid(udb) for a non-coinbase call: "true", "false", or
\* "raise" when pqc_verify takes len() of a None signature
RECURSIVE ValidateInputs(_, _, _, _)
ValidateInputs(tx, store, i, input_sum) ==
    IF i > Len(tx.inputs)
    THEN IF input_sum < SumSeq([j \in 1..Len(tx.outputs) |-> tx.outputs[j].amount])
         THEN "false" ELSE "true"
    ELSE LET inp == tx.inputs[i]
         IN IF ~HasKey(store, inp.txid, inp.output_index) THEN "false"
            ELSE LET utxo == get_utxo_by_id(store, inp.txid, inp.output_index)
                 IN IF is_spent(utxo) THEN "false"
                    ELSE IF utxo.address # inp.pub_key THEN "false"
                    ELSE IF inp.signature = NoneSig THEN "raise"
                    ELSE IF ~pqc_verify(inp.pub_key, tx.txid, inp.signature) THEN "false"
                    ELSE ValidateInputs(tx, store, i + 1, input_sum + utxo.amount)

is_valid(tx, store) ==
    IF tx.outputs = <<>> THEN "false" ELSE ValidateInputs(tx, store, 1, 0)

\* ----------------------------------------------------------------- wallet
\* the rows of a set in some order with amounts descending
\* (utxos.sort(key=amount, reverse=True) over an unordered SELECT)
RECURSIVE SortedDesc(_)
SortedDesc(S) ==
    IF S = {} THEN {<<>>}
    ELSE LET top == {u \in S : \A v \in S : v.amount <= u.amount}
         IN UNION {{<<u>> \o rest : rest \in SortedDesc(S \ {u})} : u \in top}

\* the selection loop of create_transaction
RECURSIVE SelectUtxos(_, _, _, _)
SelectUtxos(utxos, i, selected, need) ==
    IF i > Len(utxos) THEN selected
    ELSE LET sel == Append(selected, utxos[i])
         IN IF SumSeq([j \in 1..Len(sel) |-> sel[j].amount]) >= need THEN sel
            ELSE SelectUtxos(utxos, i + 1, sel, need)

\* WalletManager.create_transaction once the keys are found and the balance
\* suffices; utxos is the sorted list of the sender's unspent outputs
create_transaction(pub, priv, utxos, recipient_pub, amount, fee, now) ==
    LET selected == SelectUtxos(utxos, 1, <<>>, amount + fee)
        current_sum == SumSeq([j \in 1..Len(selected) |-> selected[j].amount])
        inputs == [j \in 1..Len(selected) |->
                     TxInput(selected[j].txid, selected[j].output_index, NoneSig, pub)]
        change == current_sum - (amount + fee)
        outputs == IF change > 0
                   THEN <<TxOutput(amount, recipient_pub), TxOutput(change, pub)>>
                   ELSE <<TxOutput(amount, recipient_pub)>>
    IN SignAll(Transaction(inputs, outputs, TRANSACTION_VERSION, now), priv)

\* WalletManager.get_balance
get_balance(store, public_key) ==
    LET us == get_unspent_outputs(store, public_key)
        RECURSIVE Total(_)
        Total(S) == IF S = {} THEN 0
                    ELSE LET u == CHOOSE u \in S : TRUE IN u.amount + Total(S \ {u})
    IN Total(us)

\* ------------------------------------------------------------ block store
\* a row of table blocks
BlockRow(block) ==
    [index_id |-> block.index, timestamp |-> block.timestamp,
     previous_hash |-> block.previous_hash, merkle_root |-> block.merkle_root,
     proof |-> block.proof, hash |-> block.hash,
     transactions_json |-> [i \in 1..Len(block.transactions) |->
                               to_dict(block.transactions[i], TRUE)]]

\* LedgerDBManager.save_block: the INSERT fails on the PRIMARY KEY index_id
\* and on the UNIQUE hash
save_block_ok(rows, block) ==
    \A r \in rows : r.index_id # block.index /\ r.hash # block.hash

save_block(rows, block) ==
    IF save_block_ok(rows, block) THEN rows \cup {BlockRow(block)} ELSE rows

\* LedgerDBManager.load_all_blocks: ORDER BY index_id ASC
RECURSIVE load_all_blocks(_)
load_all_blocks(rows) ==
    IF rows = {} THEN <<>>
    ELSE LET first == CHOOSE r \in rows : \A q \in rows : r.index_id <= q.index_id
         IN <<first>> \o load_all_blocks(rows \ {first})

\* Block.from_db_row: hash and merkle_root are taken from the row, the
\* transactions are parsed again
from_db_row(row, now) ==
    [index |-> row.index_id,
     timestamp |-> IF row.timestamp # 0 THEN row.timestamp ELSE now,
     transactions |-> [i \in 1..Len(row.transactions_json) |->
                          from_dict(row.transactions_json[i], now)],
     previous_hash |-> row.previous_hash, proof |-> row.proof,
     merkle_root |-> row.merkle_root, hash |-> row.hash]

\* ----------------------------------------------------------------- ledger
IsCoinbaseTx(tx) == tx.inputs[1].txid = ZeroHash

NewUtxos(tx) ==
    [i \in 1..Len(tx.outputs) |-> UTXO(tx.txid, i - 1, tx.outputs[i].address, tx.outputs[i].amount)]

\* the mark_spent calls of one transaction, input after input
RECURSIVE SpendInputs(_, _, _)
SpendInputs(store, tx, i) ==
    IF i > Len(tx.inputs) THEN store
    ELSE SpendInputs(mark_spent(store, tx.inputs[i].txid, tx.inputs[i].output_index,
                                tx.txid, i - 1), tx, i + 1)

\* QuantumLedger._update_utxo_set
RECURSIVE update_utxo_set(_, _, _)
update_utxo_set(store, transactions, is_spend) ==
    IF transactions = <<>> THEN store
    ELSE LET tx == Head(transactions)
             s1 == IF ~IsCoinbaseTx(tx) /\ is_spend THEN SpendInputs(store, tx, 1) ELSE store
             s2 == IF is_spend THEN add_utxos(s1, NewUtxos(tx)) ELSE s1
         IN update_utxo_set(s2, Tail(transactions), is_spend)

\* whether some mark_spent call of _update_utxo_set returns False
RECURSIVE SpendFails(_, _, _)
SpendFails(store, tx, i) ==
    IF i > Len(tx.inputs) THEN FALSE
    ELSE ~mark_spent_ok(store, tx.inputs[i].txid, tx.inputs[i].output_index)
         \/ SpendFails(mark_spent(store, tx.inputs[i].txid, tx.inputs[i].output_index,
                                  tx.txid, i - 1), tx, i + 1)

RECURSIVE AnySpendFails(_, _)
AnySpendFails(store, transactions) ==
    IF transactions = <<>> THEN FALSE
    ELSE LET tx == Head(transactions)
         IN (~IsCoinbaseTx(tx) /\ SpendFails(store, tx, 1))
            \/ AnySpendFails(update_utxo_set(store, <<tx>>, TRUE), Tail(transactions))

\* the all_utxos dict of rebuild_utxo_set: outputs are (re)entered unspent,
\* then the inputs of a non-coinbase transaction mark the entries they find
RECURSIVE ReplayTxs(_, _)
ReplayTxs(all_utxos, transactions) ==
    IF transactions = <<>> THEN all_utxos
    ELSE LET tx == Head(transactions)
             keys == {<<tx.txid, i - 1>> : i \in 1..Len(tx.outputs)}
             kept == {u \in all_utxos : <<u.txid, u.output_index>> \notin keys}
             s1 == kept \cup {NewUtxos(tx)[i] : i \in 1..Len(tx.outputs)}
             Hits(u) == {i \in 1..Len(tx.inputs) :
                            tx.inputs[i].txid = u.txid /\ tx.inputs[i].output_index = u.output_index}
             Last(u) == CHOOSE i \in Hits(u) : \A j \in Hits(u) : j <= i
             s2 == IF IsCoinbaseTx(tx) THEN s1
                   ELSE {IF Hits(u) # {}
                         THEN [u EXCEPT !.spent = <<tx.txid, Last(u) - 1>>] ELSE u : u \in s1}
         IN ReplayTxs(s2, Tail(transactions))

RECURSIVE ReplayChain(_, _)
ReplayChain(all_utxos, blocks) ==
    IF blocks = <<>> THEN all_utxos
    ELSE ReplayChain(ReplayTxs(all_utxos, Head(blocks).transactions), Tail(blocks))

\* QuantumLedger.rebuild_utxo_set: the store after clear_all and add_utxos
\* of the entries that are not spent
rebuild_utxo_set(blocks) == {u \in ReplayChain({}, blocks) : ~is_spent(u)}

\* QuantumLedger._adjust_difficulty
adjust_difficulty(blocks, difficulty) ==
    IF Len(blocks) % DIFFICULTY_ADJUSTMENT_INTERVAL = 0 /\ Len(blocks) > 1
    THEN LET time_taken == blocks[Len(blocks)].timestamp
                           - blocks[Len(blocks) - DIFFICULTY_ADJUSTMENT_INTERVAL + 1].timestamp
             expected_time == BLOCK_TIME_TARGET * DIFFICULTY_ADJUSTMENT_INTERVAL
         IN IF 2 * time_taken < expected_time THEN difficulty + 1
            ELSE IF time_taken > expected_time * 2
                 THEN (IF difficulty - 1 > 1 THEN difficulty - 1 ELSE 1)
            ELSE difficulty
    ELSE difficulty

\* the selection loop without pending_transactions.remove(tx)
RECURSIVE SelectValidKeepRejected(_, _, _)
SelectValidKeepRejected(store, todo, acc) ==
    IF todo = <<>> THEN acc
    ELSE LET tx == Head(todo)
         IN IF is_valid(tx, store) = "true"
            THEN SelectValidKeepRejected(store, Tail(todo),
                    [acc EXCEPT !.txs = Append(@, tx),
                                !.fees = @ + SumSeq([i \in 1..Len(tx.inputs) |->
                                    get_utxo_by_id(store, tx.inputs[i].txid,
                                                   tx.inputs[i].output_index).amount])
                                           - SumSeq([i \in 1..Len(tx.outputs) |->
                                                        tx.outputs[i].amount])])
            ELSE SelectValidKeepRejected(store, Tail(todo), acc)

\* the selection loop without the fee sum
RECURSIVE SelectValidNoFees(_, _, _)
SelectValidNoFees(store, todo, acc) ==
    IF todo = <<>> THEN acc
    ELSE LET tx == Head(todo)
         IN IF is_valid(tx, store) = "true"
            THEN SelectValidNoFees(store, Tail(todo), [acc EXCEPT !.txs = Append(@, tx)])
            ELSE SelectValidNoFees(store, Tail(todo),
                                   [acc EXCEPT !.pool = RemoveFirst(@, tx)])

\* the selection loop of mine_block over list(pending_transactions):
\* [txs, fees, pool]
RECURSIVE SelectValid(_, _, _)
SelectValid(store, todo, acc) ==
    IF todo = <<>> THEN acc
    ELSE LET tx == Head(todo)
         IN IF is_valid(tx, store) = "true"
            THEN LET ins == SumSeq([i \in 1..Len(tx.inputs) |->
                                get_utxo_by_id(store, tx.inputs[i].txid, tx.inputs[i].output_index).amount])
                     outs == SumSeq([i \in 1..Len(tx.outputs) |-> tx.outputs[i].amount])
                 IN SelectValid(store, Tail(todo),
                                [acc EXCEPT !.txs = Append(@, tx), !.fees = @ + (ins - outs)])
            ELSE SelectValid(store, Tail(todo),
                             [acc EXCEPT !.pool = RemoveFirst(@, tx)])

\* QuantumLedger.is_chain_valid
RECURSIVE ChainValidFrom(_, _)
ChainValidFrom(blocks, i) ==
    IF i > Len(blocks) THEN TRUE
    ELSE IF i > 1 /\ blocks[i].previous_hash # blocks[i - 1].hash THEN FALSE
    ELSE IF LeadingZeros(blocks[i].hash) < 1 THEN FALSE
    ELSE IF blocks[i].merkle_root # calculate_merkle_root(blocks[i].transactions) THEN FALSE
    ELSE ChainValidFrom(blocks, i + 1)

is_chain_valid(chain_to_validate, own) ==
    ChainValidFrom(IF chain_to_validate # <<>> THEN chain_to_validate ELSE own, 1)

\* ------------------------------------------------------------------ state
VARIABLES
    chain,                 \* QuantumLedger.chain
    ldb,                   \* rows of table blocks
    udb,                   \* rows of table utxos
    pending_transactions,  \* QuantumLedger.pending_transactions
    current_difficulty,    \* QuantumLedger.current_difficulty
    clock,                 \* time.time()
    pc,                    \* position of each handler thread and of the gossip thread
    loc                    \* the local variables of each thread's running call

vars == <<chain, ldb, udb, pending_transactions, current_difficulty, clock, pc, loc>>

AllThreads == Threads \cup {Gossip}

NoBlock == [index |-> 0 - 1]
NoTx == [txid |-> Absent]

\* locals of a thread that runs nothing
Locals ==
    [block |-> NoBlock, txs |-> <<>>, prev_hash |-> Absent, merkle_root |-> Absent,
     proof |-> 0, tx |-> NoTx, newchain |-> <<>>, k |-> 0, ds |-> FALSE, ret |-> "none"]

last_block == chain[Len(chain)]

\* QuantumLedger.create_genesis_block: [chain, ldb, udb] after the call
create_genesis_block(rows, store, now) ==
    LET genesis_reward_tx == create_coinbase_tx(MinerPub, MINER_REWARD * GENESIS_FACTOR, now)
        genesis_block == Block(0, <<genesis_reward_tx>>, ZeroHash, 0, now, Absent)
    IN IF save_block_ok(rows, genesis_block)
       THEN [chain |-> <<genesis_block>>, ldb |-> save_block(rows, genesis_block),
             udb |-> update_utxo_set(store, genesis_block.transactions, FALSE)]
       ELSE [chain |-> <<>>, ldb |-> rows, udb |-> store]

\* QuantumLedger.__init__ on empty stores
Init ==
    /\ clock = 2
    /\ LET g == create_genesis_block({}, {}, 1)
       IN chain = g.chain /\ ldb = g.ldb /\ udb = g.udb
    /\ pending_transactions = <<>>
    /\ current_difficulty = INITIAL_DIFFICULTY
    /\ pc = [t \in AllThreads |-> "idle"]
    /\ loc = [t \in AllThreads |-> Locals]

\* the call of thread t reaches a return statement: label is the caller's
\* position that receives the result ret
Return(t, label, ret) ==
    /\ pc' = [pc EXCEPT ![t] = label]
    /\ loc' = [loc EXCEPT ![t] = [loc[t] EXCEPT !.ret = ret]]

\* the positions at which a handler (or the gossip loop) holds the result of
\* the ledger call it made
RetLabels == {"mine_ret", "peer_ret", "tx_ret", "rc_ret"}

\* app.py 24-27, 44-47, 53-57, 71-74 and network.py 107-109: the caller
\* answers from the result and the thread is free again
Respond(t) ==
    /\ pc[t] \in RetLabels
    /\ pc' = [pc EXCEPT ![t] = "idle"]
    /\ loc' = [loc EXCEPT ![t] = Locals]
    /\ UNCHANGED <<chain, ldb, udb, pending_transactions, current_difficulty, clock>>

Goto(t, label, locals) ==
    /\ pc' = [pc EXCEPT ![t] = label]
    /\ loc' = [loc EXCEPT ![t] = locals]

\* time.time() gives a later value at every call that stamps a transaction;
\* the model stops stamping after MaxClock
Stamp == clock <= MaxClock /\ clock' = clock + 1

\* ------------------------------------------------------------- mine_block
\* GET /mine, ledger.py 199-231, taken as one step: empty-pool return,
\* retarget, selection, coinbase, merkle root, tip hash, header, start of the
\* proof search; at the return of line 218 the loop variable tx is the last
\* mempool entry the loop looked at
MineBegin(t) ==
    /\ pc[t] = "idle"
    /\ Len(chain) >= 1 /\ Len(chain) < MaxChain
    /\ IF pending_transactions = <<>>
       THEN /\ Return(t, "mine_ret", "None")
            /\ UNCHANGED <<chain, ldb, udb, pending_transactions, current_difficulty, clock>>
       ELSE LET difficulty == adjust_difficulty(chain, current_difficulty)
                sel == SelectValid(udb, pending_transactions,
                                   [txs |-> <<>>, fees |-> 0, pool |-> pending_transactions])
                reward_tx == create_coinbase_tx(MinerPub, MINER_REWARD + sel.fees, clock)
                final_txs == <<reward_tx>> \o sel.txs
            IN /\ current_difficulty' = difficulty
               /\ pending_transactions' = sel.pool
               /\ IF sel.txs = <<>>
                  THEN Goto(t, "mine_ret",
                            [Locals EXCEPT
                               !.tx = pending_transactions[Len(pending_transactions)],
                               !.ret = "None"])
                  ELSE Goto(t, "mine_pow",
                            [Locals EXCEPT
                               !.txs = final_txs,
                               !.prev_hash = last_block.hash,
                               !.merkle_root = calculate_merkle_root(final_txs),
                               !.proof = proof_of_work(Len(chain), difficulty, 0)])
               /\ IF sel.txs = <<>> THEN clock' = clock ELSE Stamp
               /\ UNCHANGED <<chain, ldb, udb>>

\* ledger.py 233: the search is over; the block is built with the chain length
\* of this moment
MinePow(t) ==
    /\ pc[t] = "mine_pow"
    /\ Goto(t, "mine_save",
            [loc[t] EXCEPT !.block = Block(Len(chain), loc[t].txs, loc[t].prev_hash,
                                           loc[t].proof, clock, loc[t].merkle_root)])
    /\ UNCHANGED <<chain, ldb, udb, pending_transactions, current_difficulty, clock>>

\* save_block's result not looked at: the commit goes on after a rejected INSERT
SaveUnchecked(t, from, to, label, failed) ==
    /\ pc[t] = from
    /\ ldb' = save_block(ldb, loc[t].block)
    /\ Goto(t, to, loc[t])
    /\ UNCHANGED <<chain, udb, pending_transactions, current_difficulty, clock>>

\* ledger.py 235 / 278: ldb.save_block
Save(t, from, to, label, failed) ==
    /\ pc[t] = from
    /\ IF save_block_ok(ldb, loc[t].block)
       THEN /\ ldb' = save_block(ldb, loc[t].block)
            /\ Goto(t, to, loc[t])
       ELSE /\ ldb' = ldb
            /\ Return(t, label, failed)
    /\ UNCHANGED <<chain, udb, pending_transactions, current_difficulty, clock>>

\* ledger.py 236 / 279: chain.append
AppendBlock(t, from, to) ==
    /\ pc[t] = from
    /\ chain' = Append(chain, loc[t].block)
    /\ Goto(t, to, loc[t])
    /\ UNCHANGED <<ldb, udb, pending_transactions, current_difficulty, clock>>

\* ledger.py 237 / 280: _update_utxo_set(block), taken as one step; ds
\* records whether a mark_spent call returned False
UpdateUtxo(t, from, to) ==
    /\ pc[t] = from
    /\ udb' = update_utxo_set(udb, loc[t].block.transactions, TRUE)
    /\ Goto(t, to, [loc[t] EXCEPT !.ds = AnySpendFails(udb, loc[t].block.transactions)])
    /\ UNCHANGED <<chain, ldb, pending_transactions, current_difficulty, clock>>

\* ledger.py 240-244 / 282-284: the mempool without the given transactions
Prune(t, from, txs, label, ret) ==
    /\ pc[t] = from
    /\ pending_transactions' =
          SelectSeq(pending_transactions,
                    LAMBDA p : \A i \in 1..Len(txs) : txs[i].txid # p.txid)
    /\ Return(t, label, ret)
    /\ UNCHANGED <<chain, ldb, udb, current_difficulty, clock>>

MineSave(t) == Save(t, "mine_save", "mine_append", "mine_ret", "None")
MineAppend(t) == AppendBlock(t, "mine_append", "mine_utxo")
MineUtxo(t) == UpdateUtxo(t, "mine_utxo", "mine_prune")
MinePrune(t) == Prune(t, "mine_prune", Tail(loc[t].block.transactions), "mine_ret", "block")

\* ------------------------------------------------- POST /block/receive
\* Block.to_dict as a peer's node sends it ('hash' is not part of it)
block_to_dict(b) ==
    [index |-> b.index, timestamp |-> b.timestamp,
     transactions |-> [i \in 1..Len(b.transactions) |-> to_dict(b.transactions[i], TRUE)],
     previous_hash |-> b.previous_hash, merkle_root |-> b.merkle_root, proof |-> b.proof]

\* app.py 63-69 and network.py 76-81: the block object built from a dict
block_from_dict(data, now) ==
    Block(data.index,
          [i \in 1..Len(data.transactions) |-> from_dict(data.transactions[i], now)],
          data.previous_hash, data.proof,
          IF data.timestamp # 0 THEN data.timestamp ELSE now,
          data.merkle_root)

\* the block dicts a peer may post: what Block.to_dict gives for a block with
\* a coinbase followed by nothing or by the transactions gossiped to it, on
\* top of a block of this node's chain, with an index and a proof of the
\* peer's choosing; or the block another request is committing at this
\* moment, sent a second time
PeerBlockDicts ==
    {block_to_dict(Block(idx, <<create_coinbase_tx("A", MINER_REWARD, clock)>> \o extra,
                         chain[i].hash, p, clock, Absent)) :
        idx \in 1..MaxChain, i \in 1..Len(chain), p \in 0..MaxProof,
        extra \in {<<>>, pending_transactions}}
    \cup {block_to_dict(loc[u].block) :
             u \in {v \in Threads : pc[v] \in {"peer_save", "peer_append", "peer_utxo", "peer_prune"}}}

\* app.py 60-70 with ledger.py 275-277: the two tests of add_block_from_peer
ReceiveBlock(t) ==
    /\ pc[t] = "idle"
    /\ Len(chain) >= 1 /\ Len(chain) < MaxChain
    /\ \E data \in PeerBlockDicts :
          LET block == block_from_dict(data, clock)
          IN IF block.previous_hash = last_block.hash
                /\ LeadingZeros(block.hash) >= current_difficulty
             THEN Goto(t, "peer_save", [Locals EXCEPT !.block = block]) /\ Stamp
             ELSE Return(t, "peer_ret", "False") /\ clock' = clock
    /\ UNCHANGED <<chain, ldb, udb, pending_transactions, current_difficulty>>

PeerSave(t) == Save(t, "peer_save", "peer_append", "peer_ret", "False")
PeerAppend(t) == AppendBlock(t, "peer_append", "peer_utxo")
PeerUtxo(t) == UpdateUtxo(t, "peer_utxo", "peer_prune")
PeerPrune(t) == Prune(t, "peer_prune", loc[t].block.transactions, "peer_ret", "True")

\* ------------------------------------------------------- add_transaction
\* ledger.py 115-121: validation and the duplicate test
AddTransaction(t, tx, label) ==
    LET v == is_valid(tx, udb)
    IN IF v = "raise" THEN Return(t, "tx_ret", "raise")
       ELSE IF v = "false" THEN Return(t, "tx_ret", "False")
       ELSE IF \E i \in 1..Len(pending_transactions) : pending_transactions[i].txid = tx.txid
            THEN Return(t, "tx_ret", "False")
       ELSE Goto(t, label, [Locals EXCEPT !.tx = tx])

\* ledger.py 123-125: the append, called from send_tx ("tx_append") or from
\* receive_tx ("rx_append")
TxAppend(t) ==
    /\ pc[t] \in {"tx_append", "rx_append"}
    /\ pending_transactions' = Append(pending_transactions, loc[t].tx)
    /\ Return(t, "tx_ret", "True")
    /\ UNCHANGED <<chain, ldb, udb, current_difficulty, clock>>

Amounts == {500}
Fees == {1}

\* POST /transactions/create: the wallet builds and signs, the ledger admits
SendTx(t) ==
    /\ pc[t] = "idle"
    /\ Len(pending_transactions) < MaxPool
    /\ \E pub \in Addresses, recipient_pub \in Addresses, amount \in Amounts, fee \in Fees :
          IF get_balance(udb, pub) < amount + fee
          THEN Return(t, "tx_ret", "NoTx") /\ clock' = clock
          ELSE \E utxos \in SortedDesc(get_unspent_outputs(udb, pub)) :
                  /\ AddTransaction(t, create_transaction(pub, Wallets[pub], utxos,
                                                          recipient_pub, amount, fee, clock),
                                    "tx_append")
                  /\ Stamp
    /\ UNCHANGED <<chain, ldb, udb, pending_transactions, current_difficulty>>

\* a transaction whose input signatures were replaced after construction:
\*   "forged"  another string of the signature's length
\*   "short"   a string one character shorter
\*   "none"    no signature at all (the dict carries null)
TamperKinds == {"forged", "short", "none"}
Tamper(tx, kind) ==
    [tx EXCEPT !.inputs =
        [i \in 1..Len(tx.inputs) |->
            [tx.inputs[i] EXCEPT !.signature =
                IF kind = "forged" THEN [n |-> SIG_LEN, k |-> "forged", d |-> tx.txid]
                ELSE IF kind = "short" THEN [n |-> SIG_LEN - 1, k |-> "short", d |-> tx.txid]
                ELSE NoneSig]]]

\* the transaction dicts a peer may post again: a transaction of the
\* mempool (announced or received before), or the transaction another
\* receive_tx request is admitting at this moment
PeerTxDicts ==
    {to_dict(pending_transactions[i], TRUE) : i \in 1..Len(pending_transactions)}
    \cup {to_dict(loc[u].tx, TRUE) : u \in {v \in Threads : pc[v] = "rx_append"}}

\* the transaction dicts a peer may make up: a payment to the peer built
\* elsewhere on an unspent output of this node's view, its signatures
\* tampered with
TamperedTxDicts(kinds) ==
    UNION {{to_dict(Tamper(create_transaction(pub, Wallets[pub], utxos, PeerAddress,
                                                    amount, fee, clock), kind), TRUE) :
                    utxos \in SortedDesc(get_unspent_outputs(udb, pub)),
                    kind \in kinds} :
                 <<pub, amount, fee>> \in
                    {x \in Addresses \X Amounts \X Fees : get_balance(udb, x[1]) >= x[2] + x[3]}}

\* POST /transactions/receive with a dict of the given set; a dict made
\* up at this moment takes the time stamp
ReceiveTxFrom(t, dicts, fresh) ==
    /\ pc[t] = "idle"
    /\ Len(pending_transactions) < MaxPool
    /\ \E data \in dicts : AddTransaction(t, from_dict(data, clock), "rx_append")
    /\ IF fresh THEN Stamp ELSE clock' = clock
    /\ UNCHANGED <<chain, ldb, udb, pending_transactions, current_difficulty>>

\* a peer posts again what it posted or was sent before
ReceiveTx(t) == ReceiveTxFrom(t, PeerTxDicts, FALSE)

\* a peer posts a transaction with a signature that no key made
ReceiveForgedTx(t) == ReceiveTxFrom(t, TamperedTxDicts({"forged"}), TRUE)

\* a peer posts a transaction tampered with in any way
ReceiveTamperedTx(t) == ReceiveTxFrom(t, TamperedTxDicts(TamperKinds), TRUE)

\* a transaction a key holder builds by hand on an unspent output u of the
\* key, signed with the key:
\*   "doubled"   u listed in two inputs, both counted, all paid to the peer
\*   "negative"  a negative output beside one larger than u
CraftKinds == {"doubled", "negative"}
Craft(u, kind, now) ==
    LET inp == TxInput(u.txid, u.output_index, NoneSig, u.address)
        inputs == IF kind = "doubled" THEN <<inp, inp>> ELSE <<inp>>
        outputs == IF kind = "doubled"
                   THEN <<TxOutput(2 * u.amount, PeerAddress)>>
                   ELSE <<TxOutput(u.amount + MINER_REWARD, PeerAddress),
                          TxOutput(0 - MINER_REWARD, u.address)>>
    IN SignAll(Transaction(inputs, outputs, TRANSACTION_VERSION, now), Wallets[u.address])

CraftedTxDicts ==
    {to_dict(Craft(u, kind, clock), TRUE) :
        u \in UNION {get_unspent_outputs(udb, pub) : pub \in Addresses}, kind \in CraftKinds}

\* a key holder posts a hand-built transaction
ReceiveCraftedTx(t) == ReceiveTxFrom(t, CraftedTxDicts, TRUE)

\* ------------------------------------------------------ resolve_conflicts
\* a proof with which the header hash of a peer's block starts with '0'
\* (wanted = TRUE) or does not (wanted = FALSE)
PeerProof(index, timestamp, wanted) ==
    CHOOSE p \in 0..MaxProof :
        (LeadingZeros(calculate_hash(index, timestamp, ZeroHash, ZeroHash, p)) >= 1) = wanted

\* the 'chain' list of a peer's GET /chain answer, n blocks long.  kind:
\*   "honest"    what Block.to_dict of a node running this code gives
\*   "valid"     merkle roots left out, every hash starting with '0'
\*   "nopow"     as "valid", the last hash not starting with '0'
\*   "sameindex" as "valid", every block carrying index 0
\*   "nogenesis" as "valid", the first hash not starting with '0'
RECURSIVE PeerChain(_, _, _, _)
PeerChain(n, total, kind, now) ==
    IF n = 0 THEN <<>>
    ELSE LET before == PeerChain(n - 1, total, kind, now)
             prev == IF n = 1 THEN ZeroHash ELSE block_from_dict(before[n - 1], now).hash
             index == IF kind = "sameindex" THEN 0 ELSE n - 1
             amount == IF n = 1 THEN MINER_REWARD * GENESIS_FACTOR ELSE MINER_REWARD
             cb == create_coinbase_tx(PeerAddress, amount, now + n)
             proof == IF kind = "honest" THEN 0
                      ELSE PeerProof(index, now, ~((kind = "nopow" /\ n = total)
                                                  \/ (kind = "nogenesis" /\ n = 1)))
             b == Block(index, <<cb>>, prev, proof, now, Absent)
         IN Append(before,
                   [block_to_dict(b) EXCEPT
                      !.merkle_root = IF kind = "honest" THEN b.merkle_root ELSE Absent])

PeerChainKinds == {"honest", "valid", "nopow", "sameindex"}

\* the answers a peer may give: the length it states need not be the
\* length of the list it sends
PeerChainAnswers ==
    {[length |-> len, chain |-> PeerChain(n, n, kind, clock)] :
        n \in 1..MaxChain, len \in 1..(MaxChain + 1), kind \in PeerChainKinds}

\* network.py 60-92: the survey of the peers, reduced to the answer that is
\* the last to raise max_length
ResolveBegin ==
    /\ pc[Gossip] = "idle"
    /\ \E data \in PeerChainAnswers :
          LET new_chain == [i \in 1..Len(data.chain) |-> block_from_dict(data.chain[i], clock)]
          IN IF data.length > Len(chain) /\ is_chain_valid(new_chain, chain) /\ new_chain # <<>>
             THEN Goto(Gossip, "rc_chain", [Locals EXCEPT !.newchain = new_chain]) /\ Stamp
             ELSE Return(Gossip, "rc_ret", "False") /\ clock' = clock
    /\ UNCHANGED <<chain, ldb, udb, pending_transactions, current_difficulty>>

\* network.py 93: self.ledger.chain = longest_chain
RcChain ==
    /\ pc[Gossip] = "rc_chain"
    /\ chain' = loc[Gossip].newchain
    /\ Goto(Gossip, "rc_clear", loc[Gossip])
    /\ UNCHANGED <<ldb, udb, pending_transactions, current_difficulty, clock>>

\* network.py 94: ldb.clear_blocks()
RcClear ==
    /\ pc[Gossip] = "rc_clear"
    /\ ldb' = {}
    /\ Goto(Gossip, "rc_save", [loc[Gossip] EXCEPT !.k = 1])
    /\ UNCHANGED <<chain, udb, pending_transactions, current_difficulty, clock>>

\* network.py 95-96: save_block of the next block, its result unused
RcSave ==
    /\ pc[Gossip] = "rc_save"
    /\ LET k == loc[Gossip].k
       IN /\ ldb' = save_block(ldb, loc[Gossip].newchain[k])
          /\ IF k < Len(loc[Gossip].newchain)
             THEN Goto(Gossip, "rc_save", [loc[Gossip] EXCEPT !.k = k + 1])
             ELSE Goto(Gossip, "rc_wipe", loc[Gossip])
    /\ UNCHANGED <<chain, udb, pending_transactions, current_difficulty, clock>>

\* ledger.py 136: udb.clear_all()
RcWipe ==
    /\ pc[Gossip] = "rc_wipe"
    /\ udb' = {}
    /\ Goto(Gossip, "rc_fill", loc[Gossip])
    /\ UNCHANGED <<chain, ldb, pending_transactions, current_difficulty, clock>>

\* ledger.py 140-156 and network.py 98-99: the replay of self.chain and
\* add_utxos of what it leaves unspent
RcFill ==
    /\ pc[Gossip] = "rc_fill"
    /\ udb' = udb \cup {u \in rebuild_utxo_set(chain) : ~HasKey(udb, u.txid, u.output_index)}
    /\ Return(Gossip, "rc_ret", "True")
    /\ UNCHANGED <<chain, ldb, pending_transactions, current_difficulty, clock>>

\* ------------------------------------------------------------- restart
\* the process is stopped with no call in progress and started again:
\* QuantumLedger.__init__ and _load_chain_from_db over the stores on disk
Restart ==
    /\ \A t \in AllThreads : pc[t] = "idle"
    /\ LET rows == load_all_blocks(ldb)
       IN IF rows = <<>>
          THEN LET g == create_genesis_block(ldb, udb, clock)
               IN /\ chain' = g.chain /\ ldb' = g.ldb /\ udb' = g.udb
                  /\ current_difficulty' = INITIAL_DIFFICULTY
          ELSE LET loaded == [i \in 1..Len(rows) |-> from_db_row(rows[i], clock)]
               IN /\ chain' = loaded
                  /\ ldb' = ldb
                  /\ current_difficulty' = adjust_difficulty(loaded, INITIAL_DIFFICULTY)
                  /\ udb' = rebuild_utxo_set(loaded)
    /\ pending_transactions' = <<>>
    /\ loc' = [t \in AllThreads |-> Locals]
    /\ UNCHANGED <<clock, pc>>

Handler(t) ==
    \/ MineBegin(t) \/ MinePow(t) \/ MineSave(t) \/ MineAppend(t) \/ MineUtxo(t) \/ MinePrune(t)
    \/ ReceiveBlock(t) \/ PeerSave(t) \/ PeerAppend(t) \/ PeerUtxo(t) \/ PeerPrune(t)
    \/ SendTx(t) \/ ReceiveTx(t) \/ TxAppend(t)
    \/ Respond(t)

Resolve == ResolveBegin \/ RcChain \/ RcClear \/ RcSave \/ RcWipe \/ RcFill \/ Respond(Gossip)

\* the request handlers run on two threads, peers also post transactions
\* with forged signatures; the process may be restarted
Next ==
    \/ \E t \in Threads : Handler(t)
    \/ \E t \in Threads : ReceiveForgedTx(t)
    \/ Restart

Spec == Init /\ [][Next]_vars

\* one request thread beside the gossip thread
NextGossip ==
    \/ Handler("t1")
    \/ Resolve
    \/ Restart

SpecGossip == Init /\ [][NextGossip]_vars

\* one request thread, and peers that also post transactions they made up
NextPeer ==
    \/ Handler("t1")
    \/ ReceiveTamperedTx("t1")
    \/ ReceiveCraftedTx("t1")
    \/ Restart

SpecPeer == Init /\ [][NextPeer]_vars

\* ------------------------------------------------------ _adjust_difficulty
\* a chain of n blocks mined `spacing` seconds apart
RetargetChain(n, spacing) ==
    [i \in 1..n |->
        Block(i - 1, <<create_coinbase_tx(MinerPub, MINER_REWARD, 1 + (i - 1) * spacing)>>,
              ZeroHash, 0, 1 + (i - 1) * spacing, Absent)]

Spacings == {1, 6, 10, 21, 26, 30}

\* a ledger holding such a chain, at any difficulty
InitRetarget ==
    /\ \E n \in 1..MaxRetargetLen, spacing \in Spacings :
          /\ chain = RetargetChain(n, spacing)
          /\ ldb = {BlockRow(RetargetChain(n, spacing)[i]) : i \in 1..n}
          /\ udb = rebuild_utxo_set(RetargetChain(n, spacing))
    /\ current_difficulty \in 1..MaxDifficulty
    /\ pending_transactions = <<>>
    /\ clock = MaxClock + 1
    /\ pc = [t \in AllThreads |-> "idle"]
    /\ loc = [t \in AllThreads |-> Locals]

\* ledger.py 202 (and 97): the call of _adjust_difficulty
AdjustDifficulty(t) ==
    /\ pc[t] = "idle"
    /\ current_difficulty' = adjust_difficulty(chain, current_difficulty)
    /\ pc' = [pc EXCEPT ![t] = "adjusted"]
    /\ UNCHANGED <<chain, ldb, udb, pending_transactions, clock, loc>>

\* ledger.py 202: the next mine_block call, the chain still the same, calls
\* _adjust_difficulty again
AdjustAgain(t) ==
    /\ pc[t] = "adjusted"
    /\ current_difficulty' = adjust_difficulty(chain, current_difficulty)
    /\ pc' = [pc EXCEPT ![t] = "adjusted_again"]
    /\ UNCHANGED <<chain, ldb, udb, pending_transactions, clock, loc>>

NextRetarget == AdjustDifficulty("t1") \/ AdjustAgain("t1")

SpecRetarget == InitRetarget /\ [][NextRetarget]_vars

\* --------------------------------------------------------- is_chain_valid
\* the block lists is_chain_valid may be handed: the blocks built from a
\* peer's list of any kind, or no list
ValidateKinds == PeerChainKinds \cup {"nogenesis"}
ValidateChains ==
    {[i \in 1..n |-> block_from_dict(PeerChain(n, n, kind, now)[i], now)] :
        n \in 0..MaxChain, kind \in ValidateKinds, now \in 1..MaxClock}

\* a node with its genesis chain, the gossip thread holding such a list
InitValidate ==
    /\ clock = 2
    /\ LET g == create_genesis_block({}, {}, 1)
       IN chain = g.chain /\ ldb = g.ldb /\ udb = g.udb
    /\ pending_transactions = <<>>
    /\ current_difficulty = INITIAL_DIFFICULTY
    /\ pc = [t \in AllThreads |-> "idle"]
    /\ \E c \in ValidateChains :
          loc = [t \in AllThreads |-> IF t = Gossip THEN [Locals EXCEPT !.newchain = c] ELSE Locals]

\* network.py 83: the call of is_chain_valid(new_chain)
IsChainValid ==
    /\ pc[Gossip] = "idle"
    /\ pc' = [pc EXCEPT ![Gossip] = "validated"]
    /\ loc' = [loc EXCEPT ![Gossip] =
                  [loc[Gossip] EXCEPT !.ret = IF is_chain_valid(loc[Gossip].newchain, chain)
                                              THEN "True" ELSE "False"]]
    /\ UNCHANGED <<chain, ldb, udb, pending_transactions, current_difficulty, clock>>

NextValidate == IsChainValid

SpecValidate == InitValidate /\ [][NextValidate]_vars

\* ------------------------------------------------------------ UTXO store
\* the outputs the calls below are about: of transaction 1 (in the store,
\* unspent), of transaction 2 (in the store, spent), of the transactions
\* 3..MaxOutputs (not in the store)
UtxoTxids == {hash_data("tx", n) : n \in 1..MaxOutputs}
UtxoSeed ==
    {UTXO(hash_data("tx", 1), 0, MinerPub, MINER_REWARD),
     [UTXO(hash_data("tx", 2), 0, MinerPub, MINER_REWARD) EXCEPT
         !.spent = <<hash_data("tx", 0), 0>>]}

\* a node whose UTXO Store holds these records
InitUtxo ==
    /\ clock = 2
    /\ LET g == create_genesis_block({}, {}, 1)
       IN chain = g.chain /\ ldb = g.ldb
    /\ udb = UtxoSeed
    /\ pending_transactions = <<>>
    /\ current_difficulty = INITIAL_DIFFICULTY
    /\ pc = [t \in AllThreads |-> "idle"]
    /\ loc = [t \in AllThreads |-> Locals]

\* ledger.py 164-166: thread t is about to call mark_spent for input k of
\* its transaction tx, which spends one of the outputs
MarkSpentCall(t) ==
    /\ pc[t] = "idle"
    /\ \E txid \in UtxoTxids :
          Goto(t, "ms_call",
               [Locals EXCEPT
                  !.tx = Transaction(<<TxInput(txid, 0, NoneSig, MinerPub)>>,
                                     <<TxOutput(MINER_REWARD, t)>>, TRANSACTION_VERSION, 1),
                  !.k = 1])
    /\ UNCHANGED <<chain, ldb, udb, pending_transactions, current_difficulty, clock>>

\* db_manager.py 166-172: the body of mark_spent under the manager's lock
MarkSpentLocked(t) ==
    /\ pc[t] = "ms_call"
    /\ LET inp == loc[t].tx.inputs[loc[t].k]
       IN /\ udb' = mark_spent(udb, inp.txid, inp.output_index, loc[t].tx.txid, loc[t].k - 1)
          /\ Return(t, "ms_ret", IF mark_spent_ok(udb, inp.txid, inp.output_index)
                                 THEN "True" ELSE "False")
    /\ UNCHANGED <<chain, ldb, pending_transactions, current_difficulty, clock>>

\* the lists add_utxos is called with: one or two outputs of these
\* transactions, paid to A
AddLists ==
    {<<UTXO(txid, 0, "A", 1)>> : txid \in UtxoTxids}
    \cup {<<UTXO(a, 0, "A", 1), UTXO(b, 0, "A", 1)>> : a \in UtxoTxids, b \in UtxoTxids}

\* db_manager.py 158-163: the body of add_utxos under the manager's lock,
\* called on the gossip thread
AddUtxos ==
    /\ pc[Gossip] = "idle"
    /\ \E utxos_list \in AddLists : udb' = add_utxos(udb, utxos_list)
    /\ UNCHANGED <<chain, ldb, pending_transactions, current_difficulty, clock, pc, loc>>

\* each request thread makes one mark_spent call, add_utxos is called at
\* any time
NextUtxo ==
    \/ \E t \in Threads : MarkSpentCall(t) \/ MarkSpentLocked(t)
    \/ AddUtxos

SpecUtxo == InitUtxo /\ [][NextUtxo]_vars

\* ----------------------------------------------------------------- claims
\* no call is in progress on any thread
Quiescent == \A t \in AllThreads : pc[t] = "idle"

InChain(b) == \E i \in 1..Len(chain) : chain[i] = b

\* every transaction the node holds: in the chain, in the mempool, or in a
\* running call
HeldTxs ==
    UNION {{chain[i].transactions[j] : j \in 1..Len(chain[i].transactions)} : i \in 1..Len(chain)}
    \cup {pending_transactions[i] : i \in 1..Len(pending_transactions)}
    \cup UNION {{loc[t].txs[j] : j \in 1..Len(loc[t].txs)} : t \in AllThreads}

\* the (txid, output_index) pairs a transaction spends
InputKeys(tx) == {<<tx.inputs[i].txid, tx.inputs[i].output_index>> : i \in 1..Len(tx.inputs)}

\* the inputs of committed transactions that reference the record u
RefsTo(u) ==
    {<<i, j, k>> \in (1..Len(chain)) \X (1..(MaxPool + 1)) \X (1..2) :
        /\ j <= Len(chain[i].transactions)
        /\ k <= Len(chain[i].transactions[j].inputs)
        /\ chain[i].transactions[j].inputs[k].txid = u.txid
        /\ chain[i].transactions[j].inputs[k].output_index = u.output_index}

\* C1: every block at position i > 0 of the in-memory chain has previous_hash
\* equal to the hash of the block at position i-1, under every interleaving
\* of mine_block and add_block_from_peer.
C1_ChainLinkage ==
    \A i \in 2..Len(chain) : chain[i].previous_hash = chain[i - 1].hash

\* C2: of two distinct mempool transactions that spend the same unspent
\* output, mine_block includes exactly one: the transactions selected for
\* the block being mined never contain two that spend the same output.
C2_DoubleSpendRejectedAtMine ==
    \A t \in Threads :
        pc[t] \in {"mine_pow", "mine_save", "mine_append", "mine_utxo", "mine_prune"} =>
            \A i, j \in 2..Len(loc[t].txs) :
                i < j => InputKeys(loc[t].txs[i]) \cap InputKeys(loc[t].txs[j]) = {}

\* C3: when no commit is in progress, no committed transaction references an
\* unspent UTXO record as an input, and exactly one committed input
\* references a spent one.
C3_UtxoChainConsistent ==
    Quiescent =>
        \A u \in udb : Cardinality(RefsTo(u)) = (IF is_spent(u) THEN 1 ELSE 0)

\* C4: the unspent records of the incrementally maintained UTXO Store are
\* the unspent records rebuild_utxo_set produces by replaying the chain.
C4_RebuildEquivalence ==
    Quiescent => {u \in udb : ~is_spent(u)} = rebuild_utxo_set(chain)

\* the outputs of block b are rows of the UTXO Store
OutputsVisible(b) ==
    \A j \in 1..Len(b.transactions) :
        \A o \in 1..Len(b.transactions[j].outputs) :
            HasKey(udb, b.transactions[j].txid, o - 1)

\* C5: a block being committed by mine_block or add_block_from_peer is in
\* the chain exactly when its outputs are in the UTXO Store: no state a
\* concurrent reader can see has the one without the other.
C5_CommitAtomic ==
    \A t \in Threads :
        loc[t].block # NoBlock => (InChain(loc[t].block) <=> OutputsVisible(loc[t].block))

\* C6: when the tip is no longer the block mine_block read the tip hash
\* from, the commit of the mined block fails: save_block does not store it
\* and the call goes no further.
C6_StaleTipDiscarded ==
    [][\A t \in Threads :
          (pc[t] = "mine_save" /\ pc'[t] # "mine_save"
             /\ loc[t].block.previous_hash # last_block.hash)
              => (pc'[t] = "mine_ret" /\ ldb' = ldb /\ chain' = chain /\ udb' = udb)]_vars

\* C7: when no call is in progress, the rows of the Block Store in ascending
\* index_id are the blocks of the in-memory chain, in the same order.
C7_StoreChainAgree ==
    Quiescent =>
        LET rows == load_all_blocks(ldb)
        IN /\ Len(rows) = Len(chain)
           /\ \A i \in 1..Len(rows) : rows[i] = BlockRow(chain[i])

\* C8: the ledger initialised on an empty Block Store has a chain of one
\* block (height 0, previous_hash of zeros, one coinbase transaction) and
\* the miner's balance is MINER_REWARD * 1000.
C8_GenesisSeedsUtxo ==
    (Quiescent /\ clock = 2 /\ pending_transactions = <<>>) =>
        /\ Len(chain) = 1
        /\ chain[1].index = 0
        /\ chain[1].previous_hash = ZeroHash
        /\ Len(chain[1].transactions) = 1
        /\ IsCoinbaseTx(chain[1].transactions[1])
        /\ get_balance(udb, MinerPub) = MINER_REWARD * GENESIS_FACTOR

\* C9: for every transaction T the node holds, T.txid is the hash of T's
\* serialised fields with the signatures nulled, so that
\* from_dict(T.to_dict()).txid == T.txid.
C9_TxidRecomputable ==
    \A tx \in HeldTxs :
        /\ tx.txid = calculate_txid(tx)
        /\ from_dict(to_dict(tx, TRUE), clock).txid = tx.txid

\* C10: when a mark_spent call of a block's commit reports that no row
\* changed, the commit is treated as failed: the block is not in the chain
\* and none of its outputs is in the UTXO Store.
C10_DoubleSpendFailsCommit ==
    \A t \in Threads :
        (pc[t] \in {"mine_prune", "peer_prune"} /\ loc[t].ds) =>
            /\ ~InChain(loc[t].block)
            /\ ~\E j \in 1..Len(loc[t].block.transactions) :
                   HasKey(udb, loc[t].block.transactions[j].txid, 0)

\* C11: when save_block rejects the block of a mine_block or
\* add_block_from_peer call (its height or hash is already stored), the call
\* returns None / False at once and leaves the chain, the Block Store, the
\* UTXO Store and the mempool as they are: the block is not appended.
C11_FailedPersistAppliesNothing ==
    [][\A t \in Threads :
          (pc[t] \in {"mine_save", "peer_save"} /\ pc'[t] # pc[t]
             /\ ~save_block_ok(ldb, loc[t].block))
              => /\ pc'[t] = (IF pc[t] = "mine_save" THEN "mine_ret" ELSE "peer_ret")
                 /\ loc'[t].ret = (IF pc[t] = "mine_save" THEN "None" ELSE "False")
                 /\ chain' = chain /\ ldb' = ldb /\ udb' = udb
                 /\ pending_transactions' = pending_transactions]_vars

\* a block posted twice: the second call was rejected by save_block and
\* the block is in the chain once
C11_Witness ==
    \E t \in Threads :
        /\ pc[t] = "peer_ret" /\ loc[t].ret = "False" /\ loc[t].block # NoBlock
        /\ Cardinality({i \in 1..Len(chain) : chain[i] = loc[t].block}) = 1

\* C12: add_block_from_peer(B) commits B and returns true if and only if
\* B.previous_hash is the tip's hash and B.hash has at least
\* current_difficulty leading zeros: a block that passed the two tests is
\* stored and appended, a call that returns True has its block in the
\* chain, and a call that returns False has changed nothing.
C12_InboundAcceptance ==
    [][\A t \in Threads :
          /\ (pc[t] = "peer_save" /\ pc'[t] # pc[t]) => pc'[t] = "peer_append"
          /\ (pc[t] # "peer_ret" /\ pc'[t] = "peer_ret" /\ loc'[t].ret = "True")
                => \E i \in 1..Len(chain') : chain'[i] = loc'[t].block
          /\ (pc[t] # "peer_ret" /\ pc'[t] = "peer_ret" /\ loc'[t].ret = "False")
                => UNCHANGED <<chain, ldb, udb, pending_transactions>>]_vars

\* C13: resolve_conflicts replaces the local chain only with a structurally
\* valid chain that has strictly more blocks than the local chain has at
\* the replacement: a reconcile never shortens the chain.
C13_LongestChainRule ==
    [][(pc[Gossip] = "rc_chain" /\ pc'[Gossip] = "rc_clear")
          => (is_chain_valid(chain', chain') /\ Len(chain') > Len(chain))]_vars

\* C14: while resolve_conflicts replaces the chain, every state a concurrent
\* reader or writer can see has the new chain together with the new Block
\* Store and the new UTXO Store: once the in-memory chain is the peer's
\* chain, the Block Store holds exactly its blocks and the UTXO Store its
\* replay.
C14_ReplaceAtomic ==
    (pc[Gossip] \in {"rc_clear", "rc_save", "rc_wipe", "rc_fill"} /\ chain = loc[Gossip].newchain) =>
        /\ ldb = {BlockRow(chain[i]) : i \in 1..Len(chain)}
        /\ udb = rebuild_utxo_set(chain)

\* the transactions of the mempool and those a request is about to append
AdmittedTxs ==
    {pending_transactions[i] : i \in 1..Len(pending_transactions)}
    \cup {loc[t].tx : t \in {u \in Threads : pc[u] \in {"tx_append", "rx_append"}}}

\* C15: a transaction of which an input's signature is not the signature
\* sign_input produces for its txid is rejected by add_transaction: every
\* admitted transaction carries, on every input, the signature of the
\* input's key over the txid.
C15_TamperedSignatureRejected ==
    \A tx \in AdmittedTxs :
        \A i \in 1..Len(tx.inputs) :
            tx.inputs[i].signature = pqc_sign(Wallets[tx.inputs[i].pub_key], tx.txid)

\* C16: no two entries of the mempool have the same txid, also when
\* several request threads call add_transaction at once.
C16_MempoolUnique ==
    \A i, j \in 1..Len(pending_transactions) :
        i # j => pending_transactions[i].txid # pending_transactions[j].txid

\* C17: the in-memory chain starts at height 0 and block heights increase
\* strictly along the chain.
C17_HeightsIncrease ==
    /\ Len(chain) >= 1 => chain[1].index = 0
    /\ \A i \in 1..(Len(chain) - 1) : chain[i].index < chain[i + 1].index

\* C18: _adjust_difficulty changes current_difficulty only when the tip
\* height is a non-zero multiple of DIFFICULTY_ADJUSTMENT_INTERVAL; then,
\* with actual = tip.timestamp - chain[tip_height - INTERVAL].timestamp and
\* expected = BLOCK_TIME_TARGET * INTERVAL, the difficulty grows by 1 if
\* actual < expected / 2, becomes max(1, difficulty - 1) if
\* actual > expected * 2, and stays as it is otherwise.
C18_RetargetRule ==
    [][(pc["t1"] = "idle" /\ pc'["t1"] = "adjusted") =>
          LET tip_height == Len(chain) - 1
              expected == BLOCK_TIME_TARGET * DIFFICULTY_ADJUSTMENT_INTERVAL
          IN IF tip_height % DIFFICULTY_ADJUSTMENT_INTERVAL = 0 /\ tip_height # 0
             THEN LET actual == chain[tip_height + 1].timestamp
                                - chain[tip_height - DIFFICULTY_ADJUSTMENT_INTERVAL + 1].timestamp
                  IN current_difficulty' =
                        IF 2 * actual < expected THEN current_difficulty + 1
                        ELSE IF actual > expected * 2
                             THEN (IF current_difficulty - 1 > 1 THEN current_difficulty - 1 ELSE 1)
                        ELSE current_difficulty
             ELSE current_difficulty' = current_difficulty]_vars

\* C19: every block committed by mine_block has a proof with which the
\* guess hash over the block's own index, previous_hash and merkle_root
\* starts with at least `difficulty` zeros, and no smaller proof does, also
\* when other blocks are committed during the search.
C19_MinedProofOfWork ==
    \A t \in Threads :
        pc[t] \in {"mine_append", "mine_utxo", "mine_prune"} =>
            /\ GuessZeros(loc[t].block.index, loc[t].block.proof) >= current_difficulty
            /\ \A q \in 0..(loc[t].block.proof - 1) :
                   GuessZeros(loc[t].block.index, q) < current_difficulty

\* C20: add_transaction, mine_block and add_block_from_peer never raise:
\* whatever transaction or block they are given, the call ends with a
\* boolean or optional result.
C20_NoRaise ==
    \A t \in Threads : pc[t] \in RetLabels => loc[t].ret # "raise"

\* thread t holds the block mine_block returned for scenario S2: the first
\* block after genesis, a coinbase and one transaction, which is the
\* wallet's payment of 50.0 from M to A
SimpleTransferMined(t) ==
    /\ pc[t] = "mine_ret" /\ loc[t].ret = "block"
    /\ loc[t].block.index = 1
    /\ Len(loc[t].block.transactions) = 2
    /\ LET tx == loc[t].block.transactions[2]
       IN /\ tx.outputs[1] = TxOutput(500, "A")
          /\ \A i \in 1..Len(tx.inputs) :
                 /\ tx.inputs[i].pub_key = MinerPub
                 /\ tx.inputs[i].signature = pqc_sign(Wallets[MinerPub], tx.txid)

\* the chain and the block of scenario S2 after mine_block
SimpleTransferBlock(t) ==
    /\ Len(chain) = 2 /\ chain[2] = loc[t].block
    /\ IsCoinbaseTx(chain[2].transactions[1])
    /\ chain[2].transactions[1].outputs[1].address = MinerPub
    /\ get_balance(udb, "A") = 500

\* C21 as stated: after the simple transfer (50.0 to A, fee 0.1, one block
\* mined) the chain has length 2, the block is [coinbase, transfer],
\* balance(A) = 50.0 and balance(M) = MINER_REWARD*1000 - 50.0 +
\* MINER_REWARD + 0.1.
C21_SimpleTransferAsStated ==
    \A t \in Threads :
        SimpleTransferMined(t) =>
            /\ SimpleTransferBlock(t)
            /\ get_balance(udb, MinerPub) = MINER_REWARD * GENESIS_FACTOR - 500 + MINER_REWARD + 1

\* C21 amended: after the simple transfer the chain has length 2, the
\* block is [coinbase, transfer], balance(A) = 50.0 and balance(M) =
\* MINER_REWARD*1000 - 50.0 + MINER_REWARD: the fee M paid comes back to M
\* in the coinbase, so it does not appear in the balance.
C21_SimpleTransfer ==
    \A t \in Threads :
        SimpleTransferMined(t) =>
            /\ SimpleTransferBlock(t)
            /\ get_balance(udb, MinerPub) = MINER_REWARD * GENESIS_FACTOR - 500 + MINER_REWARD

C21_Witness == \E t \in Threads : SimpleTransferMined(t) /\ get_balance(udb, "A") = 500

\* C22: a transaction that lists the same (txid, output_index) in two of
\* its inputs is rejected by add_transaction: no admitted transaction has
\* two inputs on one output.
C22_OneInputPerOutput ==
    \A tx \in AdmittedTxs :
        \A i, j \in 1..Len(tx.inputs) :
            i # j => <<tx.inputs[i].txid, tx.inputs[i].output_index>>
                     # <<tx.inputs[j].txid, tx.inputs[j].output_index>>

\* C23: every transaction admitted by add_transaction has only outputs
\* with amount >= 0, and every record of the UTXO Store has amount >= 0.
C23_OutputsNonNegative ==
    /\ \A tx \in AdmittedTxs : \A i \in 1..Len(tx.outputs) : tx.outputs[i].amount >= 0
    /\ \A u \in udb : u.amount >= 0

\* the three conditions of structural validity on every block i >= 1
StructurallyValid(blocks) ==
    \A i \in 2..Len(blocks) :
        /\ blocks[i].previous_hash = blocks[i - 1].hash
        /\ blocks[i].merkle_root = calculate_merkle_root(blocks[i].transactions)
        /\ LeadingZeros(blocks[i].hash) >= 1

\* C24: is_chain_valid(chain) returns true exactly when every block
\* i >= 1 links to its predecessor's hash, carries the Merkle root of its
\* transactions and has a hash with at least one leading '0'; no condition
\* is imposed on block 0 (called with no list, the chain is the node's own).
C24_StructuralValidity ==
    pc[Gossip] = "validated" =>
        ((loc[Gossip].ret = "True")
            <=> StructurallyValid(IF loc[Gossip].newchain # <<>>
                                  THEN loc[Gossip].newchain ELSE chain))

\* C25: every block that mine_block or add_block_from_peer puts into the
\* chain has merkle_root equal to the Merkle root over the txids of its
\* own transaction list, and hash equal to the canonical hash of its
\* header fields.
C25_MerkleCommitment ==
    \A t \in Threads :
        pc[t] \in {"mine_append", "mine_utxo", "mine_prune",
                   "peer_append", "peer_utxo", "peer_prune"} =>
            LET b == loc[t].block
            IN /\ b.merkle_root = calculate_merkle_root(b.transactions)
               /\ b.hash = calculate_hash(b.index, b.timestamp, b.previous_hash,
                                          b.merkle_root, b.proof)

\* sum of input amounts minus sum of output amounts of tx, the inputs
\* looked up in store
FeeOf(tx, store) ==
    SumSeq([i \in 1..Len(tx.inputs) |->
               get_utxo_by_id(store, tx.inputs[i].txid, tx.inputs[i].output_index).amount])
    - SumSeq([i \in 1..Len(tx.outputs) |-> tx.outputs[i].amount])

\* the mempool entries that validate against the UTXO Store, in order
Revalidated == SelectSeq(pending_transactions, LAMBDA tx : is_valid(tx, udb) = "true")

\* C26: the block mine_block builds has at position 0 a coinbase paying
\* MINER_REWARD plus the fees (inputs minus outputs) of the included
\* transactions to the miner, followed by exactly the mempool transactions
\* that re-validated, in mempool order; that list is the returned block's
\* list, and when mine_block returns the block none of the included
\* transactions is left in the mempool.
C26_MinedBlockContents ==
    [][\A t \in Threads :
          /\ (pc[t] = "idle" /\ pc'[t] = "mine_pow") =>
                LET txs == loc'[t].txs
                IN /\ Tail(txs) = Revalidated
                   /\ IsCoinbaseTx(txs[1])
                   /\ txs[1].outputs =
                         <<TxOutput(MINER_REWARD
                                    + SumSeq([i \in 1..Len(Revalidated) |->
                                                 FeeOf(Revalidated[i], udb)]),
                                    MinerPub)>>
          /\ (pc[t] = "mine_prune" /\ pc'[t] = "mine_ret") =>
                /\ loc'[t].ret = "block"
                /\ loc'[t].block.transactions = loc[t].txs
                /\ \A i \in 2..Len(loc[t].txs) :
                       \A j \in 1..Len(pending_transactions') :
                           pending_transactions'[j].txid # loc[t].txs[i].txid]_vars

\* mine_block has returned a block with two included transactions and a
\* coinbase above MINER_REWARD
C26_Witness ==
    \E t \in Threads :
        /\ pc[t] = "mine_ret" /\ loc[t].ret = "block"
        /\ Len(loc[t].block.transactions) = 3
        /\ loc[t].block.transactions[1].outputs[1].amount > MINER_REWARD

\* C27: mine_block called with an empty mempool, or with a mempool in
\* which no transaction re-validates, returns None and leaves the chain,
\* the Block Store and the UTXO Store unchanged; of the mempool only the
\* rejected transactions are removed.
C27_NothingToMine ==
    [][\A t \in Threads :
          (pc[t] = "idle" /\ pc'[t] \in {"mine_ret", "mine_pow"} /\ Revalidated = <<>>) =>
              /\ pc'[t] = "mine_ret" /\ loc'[t].ret = "None"
              /\ chain' = chain /\ ldb' = ldb /\ udb' = udb
              /\ pending_transactions' = Revalidated]_vars

\* mine_block has returned None after its loop rejected every entry of a
\* mempool that was not empty
C27_Witness ==
    \E t \in Threads :
        pc[t] = "mine_ret" /\ loc[t].ret = "None" /\ loc[t].tx # NoTx

\* the output thread t's mark_spent call addresses
MarkedKey(t) == <<loc[t].tx.inputs[1].txid, loc[t].tx.inputs[1].output_index>>

\* C28: mark_spent returns true exactly when the addressed record exists
\* and is unspent at the moment of the call, and then records the spender;
\* no call of mark_spent or add_utxos changes or removes a record that is
\* spent; two calls on the same output never both return true, and of two
\* concurrent calls on an output that is in the store unspent exactly one
\* returns true.
C28_MarkSpentAtomic ==
    [][/\ \A t \in Threads :
             (pc[t] = "ms_call" /\ pc'[t] = "ms_ret") =>
                 LET key == MarkedKey(t)
                     found == HasKey(udb, key[1], key[2])
                              /\ ~is_spent(get_utxo_by_id(udb, key[1], key[2]))
                 IN /\ (loc'[t].ret = "True") <=> found
                    /\ found => get_utxo_by_id(udb', key[1], key[2]).spent
                                   = <<loc[t].tx.txid, 0>>
       /\ \A u \in udb : is_spent(u) => u \in udb'
       /\ (pc'["t1"] = "ms_ret" /\ pc'["t2"] = "ms_ret"
              /\ loc'["t1"].tx.inputs = loc'["t2"].tx.inputs) =>
              /\ ~(loc'["t1"].ret = "True" /\ loc'["t2"].ret = "True")
              /\ (\E u \in UtxoSeed : ~is_spent(u)
                                       /\ <<u.txid, u.output_index>>
                                          = <<loc'["t1"].tx.inputs[1].txid,
                                              loc'["t1"].tx.inputs[1].output_index>>)
                    => (loc'["t1"].ret = "True" \/ loc'["t2"].ret = "True")]_vars

\* both threads have called mark_spent on the output that was unspent, one
\* was told true and the other false
C28_Witness ==
    /\ pc["t1"] = "ms_ret" /\ pc["t2"] = "ms_ret"
    /\ loc["t1"].tx.inputs = loc["t2"].tx.inputs
    /\ loc["t1"].tx.inputs[1].txid = hash_data("tx", 1)
    /\ loc["t1"].ret # loc["t2"].ret

\* the sum of the amounts of the unspent records
RECURSIVE TotalAmount(_)
TotalAmount(S) ==
    IF S = {} THEN 0
    ELSE LET u == CHOOSE u \in S : TRUE IN u.amount + TotalAmount(S \ {u})

TotalUnspent == TotalAmount({u \in udb : ~is_spent(u)})

\* the UTXO Store knows the genesis output, every later block of the chain
\* was mined by this node, and no block is waiting for its UTXO update
MinedOnGenesis ==
    /\ HasKey(udb, chain[1].transactions[1].txid, 0)
    /\ \A i \in 2..Len(chain) :
           /\ IsCoinbaseTx(chain[i].transactions[1])
           /\ chain[i].transactions[1].outputs[1].address = MinerPub
    /\ \A t \in Threads : pc[t] \notin {"mine_utxo", "peer_utxo"}

\* C29: from a state in which the UTXO Store holds the genesis output,
\* after any sequence of add_transaction and mine_block the total amount
\* of the unspent records is the genesis amount plus MINER_REWARD for
\* every block mined.
C29_ValueConservation ==
    MinedOnGenesis =>
        TotalUnspent = MINER_REWARD * GENESIS_FACTOR + MINER_REWARD * (Len(chain) - 1)

C31_MinedBlockAcceptable ==
    \A t \in Threads :
        (pc[t] = "mine_ret" /\ loc[t].ret = "block") =>
            LET delivered == block_from_dict(block_to_dict(loc[t].block), clock)
            IN /\ delivered.previous_hash = loc[t].block.previous_hash
               /\ LeadingZeros(delivered.hash) >= current_difficulty

====
